---- MODULE Spec2Model ----
(***************************************************************************)
(* A model of the cleaning engine of datacleaning-assistant                *)
(* (src/src/data_cleaner.py) and of the entry point that drives it         *)
(* (src/src/cli.py, src/src/llm_processor.py).                             *)
(*                                                                         *)
(* A DataFrame is a record                                                 *)
(*   [names, dtype, data, index]                                           *)
(* names : the column labels, each a sequence of one-character strings;    *)
(* dtype : the dtype of each column ("int64", "float64", "object",         *)
(*         "datetime64");                                                  *)
(* data  : one sequence of cells per column (column-major);                *)
(* index : the row labels.                                                 *)
(* A cell is a record [t, n, d, s]: t = "null" (NaN / None / NaT),         *)
(* t = "num" (the rational n/d, d > 0, in lowest terms), t = "str" (the    *)
(* text s, a sequence of characters), t = "date" (the day n = y*10000 +    *)
(* m*100 + d), t = "zsq" (a standardised value z, held as sign(z)*z^2 =    *)
(* n/d because z itself is irrational).                                    *)
(***************************************************************************)
EXTENDS Integers, Sequences, FiniteSets, TLC

(***************************************************************************)
(* Bounds of the model: the most rows of a frame given to the pipeline, to *)
(* handle_missing_values, to deduplicate_text_fuzzy and to detect_outliers,*)
(* and the most columns of a frame given to standardize_columns.           *)
(***************************************************************************)
MaxRows == 3
MaxMissingRows == 4
MaxFuzzyRows == 3
MaxOutlierRows == 5
MaxNameCols == 3
MaxConfigRows == 2
MaxDateRows == 3
MaxRemoveRows == 4

(***************************************************************************)
(* Characters and strings (Python str as a sequence of characters).        *)
(***************************************************************************)
UpperChars == <<"A","B","C","D","E","F","G","H","I","J","K","L","M",
                "N","O","P","Q","R","S","T","U","V","W","X","Y","Z">>
LowerChars == <<"a","b","c","d","e","f","g","h","i","j","k","l","m",
                "n","o","p","q","r","s","t","u","v","w","x","y","z">>
DigitChars == <<"0","1","2","3","4","5","6","7","8","9">>

Range(f) == {f[i] : i \in DOMAIN f}

IsSpace(c) == c \in {" ", "\t", "\n", "\r", "\f"}
IsDigit(c) == c \in Range(DigitChars)
IsUpper(c) == c \in Range(UpperChars)
IsLowerAlpha(c) == c \in Range(LowerChars)

DigitVal(c) == (CHOOSE i \in DOMAIN DigitChars : DigitChars[i] = c) - 1

\* str.lower() on one character
LowerChar(c) ==
    IF IsUpper(c) THEN LowerChars[CHOOSE i \in DOMAIN UpperChars : UpperChars[i] = c]
    ELSE c

\* str.lower()
Lower(s) == [i \in DOMAIN s |-> LowerChar(s[i])]

\* the code point order of the characters the model uses (ASCII order)
CharOrder == <<"\t", "\n", "\f", "\r", " ", "#", "-", ".", "/">> \o DigitChars
             \o <<"@">> \o UpperChars \o <<"_">> \o LowerChars
CharRank(c) == CHOOSE i \in DOMAIN CharOrder : CharOrder[i] = c

\* Python's s < t on str: lexicographic by code point
RECURSIVE StrLess(_, _)
StrLess(s, t) ==
    IF t = <<>> THEN FALSE
    ELSE IF s = <<>> THEN TRUE
    ELSE IF s[1] = t[1] THEN StrLess(Tail(s), Tail(t))
    ELSE CharRank(s[1]) < CharRank(t[1])

\* str.strip()
RECURSIVE LStrip(_)
LStrip(s) == IF s # <<>> /\ IsSpace(s[1]) THEN LStrip(Tail(s)) ELSE s
RECURSIVE RStrip(_)
RStrip(s) ==
    IF s # <<>> /\ IsSpace(s[Len(s)]) THEN RStrip(SubSeq(s, 1, Len(s) - 1)) ELSE s
Strip(s) == RStrip(LStrip(s))

(***************************************************************************)
(* Rational arithmetic: the numbers pandas computes in float64, exactly.   *)
(***************************************************************************)
Abs(x) == IF x < 0 THEN -x ELSE x
RECURSIVE GCD(_, _)
GCD(a, b) == IF b = 0 THEN a ELSE GCD(b, a % b)

\* the rational n/d (d # 0) in lowest terms with a positive denominator
Rat(n, d) ==
    LET g == GCD(Abs(n), Abs(d))
        sg == IF d < 0 THEN -1 ELSE 1
    IN [n |-> (sg * n) \div g, d |-> (sg * d) \div g]
RInt(k) == [n |-> k, d |-> 1]
RAdd(a, b) == Rat(a.n * b.d + b.n * a.d, a.d * b.d)
RSub(a, b) == Rat(a.n * b.d - b.n * a.d, a.d * b.d)
RMul(a, b) == Rat(a.n * b.n, a.d * b.d)
RDiv(a, b) == Rat(a.n * b.d, a.d * b.n)
RLess(a, b) == a.n * b.d < b.n * a.d
RLeq(a, b) == a.n * b.d <= b.n * a.d
RFloor(a) == a.n \div a.d

RECURSIVE SeqSum(_)
SeqSum(ks) == IF ks = <<>> THEN 0 ELSE ks[1] + SeqSum(Tail(ks))
RECURSIVE SeqGCD(_)
SeqGCD(ks) == IF ks = <<>> THEN 0 ELSE GCD(ks[1], SeqGCD(Tail(ks)))
RECURSIVE SeqLCM(_)
SeqLCM(ks) ==
    IF ks = <<>> THEN 1
    ELSE (ks[1] \div GCD(ks[1], SeqLCM(Tail(ks)))) * SeqLCM(Tail(ks))

RECURSIVE RSum(_)
RSum(xs) == IF xs = <<>> THEN RInt(0) ELSE RAdd(xs[1], RSum(Tail(xs)))

\* the sequence xs sorted ascending (insertion sort)
RECURSIVE RInsert(_, _)
RInsert(x, xs) ==
    IF xs = <<>> THEN <<x>>
    ELSE IF RLeq(x, xs[1]) THEN <<x>> \o xs
    ELSE <<xs[1]>> \o RInsert(x, Tail(xs))
RECURSIVE RSort(_)
RSort(xs) == IF xs = <<>> THEN <<>> ELSE RInsert(xs[1], RSort(Tail(xs)))

(***************************************************************************)
(* Cells and the column statistics pandas computes (NaN-skipping).         *)
(***************************************************************************)
Null == [t |-> "null", n |-> 0, d |-> 1, s |-> <<>>]
Num(r) == [t |-> "num", n |-> r.n, d |-> r.d, s |-> <<>>]
NumInt(k) == Num(RInt(k))
Str(s) == [t |-> "str", n |-> 0, d |-> 1, s |-> s]
Date(k) == [t |-> "date", n |-> k, d |-> 1, s |-> <<>>]
ZSq(r) == [t |-> "zsq", n |-> r.n, d |-> r.d, s |-> <<>>]
Val(c) == [n |-> c.n, d |-> c.d]

\* Series.isna()
IsNa(c) == c.t = "null"
NotNa(c) == c.t # "null"
\* Series.dropna()
DropNa(col) == SelectSeq(col, NotNa)
\* Series.isna().sum()
NaCount(col) == Len(col) - Len(DropNa(col))
\* the numbers of a numeric column, NaN skipped
Vals(col) == LET p == DropNa(col) IN [i \in DOMAIN p |-> Val(p[i])]

IsNumericDtype(dt) == dt \in {"int64", "float64"}

\* Series.mean(): NaN for no value
Mean(col) ==
    LET xs == Vals(col)
    IN IF xs = <<>> THEN Null ELSE Num(RDiv(RSum(xs), RInt(Len(xs))))

\* Series.quantile(q), linear interpolation between the order statistics
Quantile(col, q) ==
    LET xs == RSort(Vals(col))
        pos == RMul(q, RInt(Len(xs) - 1))
        lo == RFloor(pos)
        frac == RSub(pos, RInt(lo))
    IN IF xs = <<>> THEN Null
       ELSE IF frac.n = 0 THEN Num(xs[lo + 1])
       ELSE Num(RAdd(xs[lo + 1], RMul(frac, RSub(xs[lo + 2], xs[lo + 1]))))

\* Series.median()
Median(col) == Quantile(col, Rat(1, 2))

\* Series.skew() < 2. pandas' nanskew: NaN for fewer than 3 values (NaN < 2
\* is False), 0 when the values are all equal, else
\* n*sqrt(n-1)/(n-2) * m3/m2^1.5 with m2, m3 the sums of the squared and
\* cubed deviations; compared with 2 by squaring. The skewness is exactly 2
\* for four values of the shape a, a, a, b (a < b), its maximum for four
\* values; float64 evaluates that product to 1.9999999999999998, below 2, so
\* equality counts as below.
Deviations(xs) ==
    [i \in DOMAIN xs |-> RSub(xs[i], RDiv(RSum(xs), RInt(Len(xs))))]
\* the skewness does not change with the scale: the deviations as whole
\* numbers without a common factor
WholeDeviations(dev) ==
    [i \in DOMAIN dev |->
        dev[i].n * (SeqLCM([k \in DOMAIN dev |-> dev[k].d]) \div dev[i].d)]
ReducedDeviations(w) ==
    [i \in DOMAIN w |-> w[i] \div SeqGCD([k \in DOMAIN w |-> Abs(w[k])])]
SumOfSquares(e) == SeqSum([i \in DOMAIN e |-> e[i] * e[i]])
SumOfCubes(e) == SeqSum([i \in DOMAIN e |-> e[i] * e[i] * e[i]])
SkewOfDeviationsBelow2(cnt, e) ==
    \/ SumOfCubes(e) <= 0
    \/ cnt * cnt * (cnt - 1) * SumOfCubes(e) * SumOfCubes(e)
          <= 4 * (cnt - 2) * (cnt - 2)
               * SumOfSquares(e) * SumOfSquares(e) * SumOfSquares(e)
SkewBelow2(col) ==
    IF Len(Vals(col)) < 3 THEN FALSE
    ELSE IF \A i \in DOMAIN Vals(col) : Vals(col)[i] = Vals(col)[1] THEN TRUE
    ELSE SkewOfDeviationsBelow2(Len(Vals(col)),
             ReducedDeviations(WholeDeviations(Deviations(Vals(col)))))

\* the order pandas sorts the modes in: numbers by value, text by code point
CellLess(a, b) ==
    IF a.t = "str" /\ b.t = "str" THEN StrLess(a.s, b.s)
    ELSE IF a.t = "str" \/ b.t = "str" THEN b.t = "str"
    ELSE RLess(Val(a), Val(b))

Occurrences(col, c) == Cardinality({i \in DOMAIN col : col[i] = c})

\* Series.mode(): the most frequent non-null values, sorted; empty for no value
ModeSet(col) ==
    {c \in Range(DropNa(col)) :
        \A e \in Range(DropNa(col)) : Occurrences(col, e) <= Occurrences(col, c)}
\* Series.mode()[0]
Mode0(col) ==
    CHOOSE c \in ModeSet(col) : \A e \in ModeSet(col) : e = c \/ CellLess(c, e)

\* Series.fillna(value): a NaN value fills nothing
FillNa(col, v) == [i \in DOMAIN col |-> IF IsNa(col[i]) THEN v ELSE col[i]]

(***************************************************************************)
(* DataFrames.                                                             *)
(***************************************************************************)
NCols(df) == Len(df.names)
NRows(df) == Len(df.index)
Cols(df) == 1..NCols(df)
Rows(df) == 1..NRows(df)
Row(df, r) == [c \in Cols(df) |-> df.data[c][r]]

\* df[name] is a Series only when one column carries the label; with
\* several it is a DataFrame
IsDupLabel(df, c) == \E c2 \in Cols(df) : c2 # c /\ df.names[c2] = df.names[c]
NamesDistinct(names) ==
    \A i, j \in DOMAIN names : i # j => names[i] # names[j]

\* the positions of a sequence that satisfy keep, in order
RECURSIVE KeptPositions(_, _)
KeptPositions(keep, k) ==
    IF k > Len(keep) THEN <<>>
    ELSE (IF keep[k] THEN <<k>> ELSE <<>>) \o KeptPositions(keep, k + 1)

\* the frame restricted to the rows whose keep flag is set, order and row
\* labels kept
TakeRows(df, keep) ==
    LET pos == KeptPositions(keep, 1)
    IN [df EXCEPT !.index = [i \in DOMAIN pos |-> df.index[pos[i]]],
                  !.data = [c \in Cols(df) |->
                               [i \in DOMAIN pos |-> df.data[c][pos[i]]]]]

\* the frame without the columns whose drop flag is set
TakeCols(df, keep) ==
    LET pos == KeptPositions(keep, 1)
    IN [df EXCEPT !.names = [i \in DOMAIN pos |-> df.names[pos[i]]],
                  !.dtype = [i \in DOMAIN pos |-> df.dtype[pos[i]]],
                  !.data = [i \in DOMAIN pos |-> df.data[pos[i]]]]

SetCol(df, c, col, dt) ==
    [df EXCEPT !.data[c] = col, !.dtype[c] = dt]

\* an entry of self.actions: the text's template, the column it names and
\* the number or name it is formatted with
Entry(op, col, n, how) == [op |-> op, col |-> col, n |-> n, how |-> how]

(***************************************************************************)
(* DataCleaner. self is the record of the object's fields:                 *)
(* nullity_threshold (a rational), outlier_method, outlier_action,         *)
(* fuzzy_threshold, scale_numeric, scale_method, actions, outlier_flags.   *)
(* A method returns [self, df, ok]: the object and the frame after the     *)
(* call, ok = FALSE when the call raised.                                  *)
(***************************************************************************)
DataCleaner(nullity_threshold, outlier_method, outlier_action, fuzzy_threshold, scale_numeric, scale_method) ==
    [nullity_threshold |-> nullity_threshold,
     outlier_method |-> outlier_method,
     outlier_action |-> outlier_action,
     fuzzy_threshold |-> fuzzy_threshold,
     scale_numeric |-> scale_numeric,
     scale_method |-> scale_method,
     actions |-> <<>>,
     outlier_flags |-> <<>>]

Return(self, df) == [self |-> self, df |-> df, ok |-> TRUE]
Raise(self, df) == [self |-> self, df |-> df, ok |-> FALSE]
\* self.actions.append(entry)
Append1(self, entry) == [self EXCEPT !.actions = Append(@, entry)]

\* drop_duplicates that compares a row with the row just before it only
DropDuplicatesKeepAdjacent(df) ==
    [r \in Rows(df) |-> ~ (r > 1 /\ Row(df, r - 1) = Row(df, r))]

\* DataFrame.drop_duplicates(): a row is kept unless an earlier row equals it
\* in every column (NaN equal to NaN)
DropDuplicatesKeep(df) ==
    [r \in Rows(df) |-> ~ \E r2 \in 1..(r - 1) : Row(df, r2) = Row(df, r)]

remove_duplicates(self, df) ==
    LET initial_rows == NRows(df)
        out == TakeRows(df, DropDuplicatesKeep(df))
    IN Return(Append1(self, Entry("Removed duplicate rows", <<>>,
                                  initial_rows - NRows(out), "")),
              out)

\* the strategy the 'auto' branch assigns for column c
AutoStrategy(df, c) ==
    IF IsNumericDtype(df.dtype[c])
    THEN (IF SkewBelow2(df.data[c]) THEN "mean" ELSE "median")
    ELSE "mode"

HasText(col) == \E i \in DOMAIN col : col[i].t = "str"

\* one turn of the loop of handle_missing_values at column position c with
\* the current value of the local variable strategy
RECURSIVE HandleMissingFrom(_, _, _, _)
HandleMissingFrom(self, df, strategy, c) ==
    IF c > NCols(df) THEN Return(self, df)
    ELSE IF IsDupLabel(df, c) THEN Raise(self, df)
    ELSE IF NaCount(df.data[c]) = 0 THEN HandleMissingFrom(self, df, strategy, c + 1)
    ELSE
      LET col == df.data[c]
          strat == IF strategy = "auto" THEN AutoStrategy(df, c) ELSE strategy
          logged == Append1(self, Entry("Handled missing values", df.names[c], 0, strat))
      IN CASE strat = "mean" ->
                IF HasText(col) THEN Raise(self, df)
                ELSE HandleMissingFrom(logged,
                        SetCol(df, c, FillNa(col, Mean(col)), df.dtype[c]), strat, c + 1)
           [] strat = "median" ->
                IF HasText(col) THEN Raise(self, df)
                ELSE HandleMissingFrom(logged,
                        SetCol(df, c, FillNa(col, Median(col)), df.dtype[c]), strat, c + 1)
           [] strat = "mode" ->
                IF ModeSet(col) = {} THEN Raise(self, df)
                ELSE HandleMissingFrom(logged,
                        SetCol(df, c, FillNa(col, Mode0(col)), df.dtype[c]), strat, c + 1)
           [] strat = "drop" ->
                HandleMissingFrom(logged,
                    TakeRows(df, [r \in Rows(df) |-> NotNa(col[r])]), strat, c + 1)
           [] OTHER -> HandleMissingFrom(logged, df, strat, c + 1)

handle_missing_values(self, df, strategy) == HandleMissingFrom(self, df, strategy, 1)

\* re.sub(r'[\s-]+', '_', name): every run of whitespace or hyphens becomes
\* one underscore
IsSep(c) == IsSpace(c) \/ c = "-"
RECURSIVE SkipSep(_)
SkipSep(s) == IF s # <<>> /\ IsSep(s[1]) THEN SkipSep(Tail(s)) ELSE s
RECURSIVE CollapseSep(_)
CollapseSep(s) ==
    IF s = <<>> THEN <<>>
    ELSE IF IsSep(s[1]) THEN <<"_">> \o CollapseSep(SkipSep(s))
    ELSE <<s[1]>> \o CollapseSep(Tail(s))

\* re.sub(r'[^a-z0-9_]', '', name)
IsIdentChar(c) == IsLowerAlpha(c) \/ IsDigit(c) \/ c = "_"
KeepIdent(s) == SelectSeq(s, IsIdentChar)

\* to_snake_case without its name.lower()
to_snake_case_unlowered(name) == KeepIdent(CollapseSep(name))

to_snake_case(name) == KeepIdent(Lower(CollapseSep(name)))

standardize_columns(self, df) ==
    Return(Append1(self, Entry("Standardized column names", <<>>, 0, "")),
           [df EXCEPT !.names = [c \in Cols(df) |-> to_snake_case(df.names[c])]])

\* the number a numeral denotes: [-]digits[.digits]; FALSE for other text
RECURSIVE DigitsValue(_, _)
DigitsValue(s, acc) ==
    IF s = <<>> THEN acc ELSE DigitsValue(Tail(s), 10 * acc + DigitVal(s[1]))
RECURSIVE Pow10(_)
Pow10(k) == IF k = 0 THEN 1 ELSE 10 * Pow10(k - 1)
AllDigits(s) == s # <<>> /\ \A i \in DOMAIN s : IsDigit(s[i])
IsNumeral(s) ==
    LET u == IF s # <<>> /\ s[1] = "-" THEN Tail(s) ELSE s
        dots == {i \in DOMAIN u : u[i] = "."}
    IN \/ AllDigits(u)
       \/ \E p \in dots : /\ dots = {p}
                          /\ AllDigits(SubSeq(u, 1, p - 1))
                          /\ AllDigits(SubSeq(u, p + 1, Len(u)))
NumeralValue(s) ==
    LET neg == s # <<>> /\ s[1] = "-"
        u == IF neg THEN Tail(s) ELSE s
        dots == {i \in DOMAIN u : u[i] = "."}
        p == IF dots = {} THEN Len(u) + 1 ELSE CHOOSE i \in dots : TRUE
        whole == DigitsValue(SubSeq(u, 1, p - 1), 0)
        fracs == SubSeq(u, p + 1, Len(u))
        mag == RAdd(RInt(whole), Rat(DigitsValue(fracs, 0), Pow10(Len(fracs))))
    IN IF neg THEN RSub(RInt(0), mag) ELSE mag

\* pd.to_numeric(col, errors='ignore') on an object column: the numbers when
\* every value is a numeral (the empty string counts as NaN), the column
\* itself otherwise. The result is int64 when all are whole and none is
\* missing, float64 otherwise.
ToNumericCell(c) ==
    IF c.t = "str" THEN (IF c.s = <<>> THEN Null ELSE Num(NumeralValue(c.s))) ELSE c
ToNumericOk(col) ==
    \A i \in DOMAIN col : col[i].t = "str" => (col[i].s = <<>> \/ IsNumeral(col[i].s))
NumericDtypeOf(col) ==
    IF \A i \in DOMAIN col : col[i].t = "num" /\ col[i].d = 1
    THEN "int64" ELSE "float64"

RECURSIVE FixTypesFrom(_, _, _)
FixTypesFrom(self, df, c) ==
    IF c > NCols(df) THEN Return(self, df)
    ELSE IF IsDupLabel(df, c) THEN Raise(self, df)
    ELSE
      LET col == df.data[c]
          conv == [i \in DOMAIN col |-> ToNumericCell(col[i])]
          df2 == IF df.dtype[c] = "object" /\ ToNumericOk(col)
                 THEN SetCol(df, c, conv, NumericDtypeOf(conv))
                 ELSE df
      IN FixTypesFrom(Append1(self, Entry("Checked and fixed data types",
                                          df.names[c], 0, "")),
                      df2, c + 1)

fix_data_types(self, df) == FixTypesFrom(self, df, 1)

\* the positions of the columns select_dtypes(include=...) selects
RECURSIVE ColsOfDtype(_, _, _)
ColsOfDtype(df, dts, c) ==
    IF c > NCols(df) THEN <<>>
    ELSE (IF df.dtype[c] \in dts THEN <<c>> ELSE <<>>) \o ColsOfDtype(df, dts, c + 1)
NumericCols(df) == ColsOfDtype(df, {"int64", "float64"}, 1)
ObjectCols(df) == ColsOfDtype(df, {"object"}, 1)

\* Series.clip(lower, upper) on one cell; NaN stays NaN, a NaN bound is no bound
Clip(c, lower, upper) ==
    IF c.t # "num" THEN c
    ELSE LET lo == IF lower.t = "num" /\ RLess(Val(c), Val(lower)) THEN lower ELSE c
         IN IF upper.t = "num" /\ RLess(Val(upper), Val(lo)) THEN upper ELSE lo

CountTrue(flags) == Cardinality({i \in DOMAIN flags : flags[i]})

\* self.outlier_flags[col] = outliers (a dict keyed by the column label)
DictSet(dict, key, value) ==
    IF \E i \in DOMAIN dict : dict[i][1] = key
    THEN [i \in DOMAIN dict |-> IF dict[i][1] = key THEN <<key, value>> ELSE dict[i]]
    ELSE Append(dict, <<key, value>>)

_handle_outliers(self, df, c, outliers, lower_bound, upper_bound) ==
    LET outlier_count == CountTrue(outliers)
        col == df.data[c]
        capped == [r \in Rows(df) |->
                     IF outliers[r] THEN Clip(col[r], lower_bound, upper_bound)
                     ELSE col[r]]
        cappedDtype == IF df.dtype[c] = "int64" THEN NumericDtypeOf(capped)
                       ELSE df.dtype[c]
    IN IF outlier_count = 0 THEN Return(self, df)
       ELSE CASE self.outlier_action = "cap" ->
                   Return(Append1(self, Entry("Capped outliers", df.names[c],
                                              outlier_count, "")),
                          SetCol(df, c, capped, cappedDtype))
              [] self.outlier_action = "remove" ->
                   Return(Append1(self, Entry("Removed outliers", df.names[c],
                                              outlier_count, "")),
                          TakeRows(df, [r \in Rows(df) |-> ~outliers[r]]))
              [] self.outlier_action = "flag" ->
                   Return(Append1([self EXCEPT !.outlier_flags =
                                      DictSet(@, df.names[c], outliers)],
                                  Entry("Flagged outliers", df.names[c],
                                        outlier_count, "")),
                          df)
              [] OTHER ->
                   \* no branch appends, and logger.info(self.actions[-1])
                   \* reads the last entry of a list that may be empty
                   IF self.actions = <<>> THEN Raise(self, df) ELSE Return(self, df)

\* (df[col] < lower_bound) | (df[col] > upper_bound); a comparison with NaN
\* is False
IqrOutliers(col, lower, upper) ==
    [r \in DOMAIN col |->
        /\ col[r].t = "num"
        /\ lower.t = "num"
        /\ (RLess(Val(col[r]), Val(lower)) \/ RLess(Val(upper), Val(col[r])))]

IqrLower(col) ==
    LET Q1 == Quantile(col, Rat(1, 4))
        Q3 == Quantile(col, Rat(3, 4))
    IN IF Q1.t # "num" THEN Null
       ELSE Num(RSub(Val(Q1), RMul(Rat(3, 2), RSub(Val(Q3), Val(Q1)))))
\* the upper bound with the factor 3 in place of 1.5
IqrUpperWide(col) ==
    LET Q1 == Quantile(col, Rat(1, 4))
        Q3 == Quantile(col, Rat(3, 4))
    IN IF Q1.t # "num" THEN Null
       ELSE Num(RAdd(Val(Q3), RMul(Rat(3, 1), RSub(Val(Q3), Val(Q1)))))
IqrUpper(col) ==
    LET Q1 == Quantile(col, Rat(1, 4))
        Q3 == Quantile(col, Rat(3, 4))
    IN IF Q1.t # "num" THEN Null
       ELSE Num(RAdd(Val(Q3), RMul(Rat(3, 2), RSub(Val(Q3), Val(Q1)))))

\* the loop over numeric_cols of the 'iqr' branch, from its k-th column
RECURSIVE IqrFrom(_, _, _, _)
IqrFrom(self, df, cols, k) ==
    IF k > Len(cols) THEN Return(self, df)
    ELSE LET c == cols[k]
             col == df.data[c]
             res == _handle_outliers(self, df, c,
                        IqrOutliers(col, IqrLower(col), IqrUpper(col)),
                        IqrLower(col), IqrUpper(col))
         IN IF res.ok THEN IqrFrom(res.self, res.df, cols, k + 1) ELSE res

\* the loop over numeric_cols of the 'isolation_forest' branch; outliers is
\* the array fit_predict returned for the rows the frame had at the fit, and
\* pd.Series(outliers, index=df.index) raises when the frame has other rows
RECURSIVE IsoFrom(_, _, _, _, _)
IsoFrom(self, df, cols, outliers, k) ==
    IF k > Len(cols) THEN Return(self, df)
    ELSE IF Len(outliers) # NRows(df) THEN Raise(self, df)
    ELSE LET c == cols[k]
             col == df.data[c]
             res == _handle_outliers(self, df, c, outliers,
                        Quantile(col, Rat(1, 20)), Quantile(col, Rat(19, 20)))
         IN IF res.ok THEN IsoFrom(res.self, res.df, cols, outliers, k + 1) ELSE res

\* IsolationForest.fit_predict refuses an empty sample and a NaN that the
\* mean imputation left (a column without any value)
IsoFitRaises(df) ==
    \/ NRows(df) = 0
    \/ \E k \in DOMAIN NumericCols(df) : DropNa(df.data[NumericCols(df)[k]]) = <<>>

\* iso: the rows fit_predict labels -1, used by the 'isolation_forest' branch
detect_outliers(self, df, iso) ==
    LET numeric_cols == NumericCols(df)
    IN IF numeric_cols = <<>> THEN Return(self, df)
       ELSE IF self.outlier_method = "iqr" THEN IqrFrom(self, df, numeric_cols, 1)
       ELSE IF self.outlier_method = "isolation_forest"
            THEN (IF IsoFitRaises(df) THEN Raise(self, df)
                  ELSE IsoFrom(self, df, numeric_cols, iso, 1))
       ELSE Return(self, df)

\* df[col].str.len().mean() > 0
MeanLenPositive(col) == \E i \in DOMAIN col : col[i].t = "str" /\ col[i].s # <<>>
StripLowerCell(c) == IF c.t = "str" THEN Str(Lower(Strip(c.s))) ELSE c

RECURSIVE NormalizeFrom(_, _, _, _)
NormalizeFrom(self, df, cols, k) ==
    IF k > Len(cols) THEN Return(self, df)
    ELSE LET c == cols[k]
             col == df.data[c]
         IN IF MeanLenPositive(col)
            THEN NormalizeFrom(
                     Append1(self, Entry("Normalized text", df.names[c], 0, "")),
                     SetCol(df, c, [i \in DOMAIN col |-> StripLowerCell(col[i])],
                            df.dtype[c]),
                     cols, k + 1)
            ELSE NormalizeFrom(self, df, cols, k + 1)

normalize_text(self, df) == NormalizeFrom(self, df, ObjectCols(df), 1)

\* Series.dropna().unique(): the distinct non-null values in first-seen order
RECURSIVE UniqueFrom(_, _)
UniqueFrom(col, seen) ==
    IF col = <<>> THEN seen
    ELSE IF IsNa(col[1]) \/ col[1] \in Range(seen) THEN UniqueFrom(Tail(col), seen)
    ELSE UniqueFrom(Tail(col), Append(seen, col[1]))
Unique(col) == UniqueFrom(col, <<>>)

\* difflib.SequenceMatcher.find_longest_match: the longest block a[i..i+k-1] =
\* b[j..j+k-1], the one starting earliest in a, then earliest in b
CommonBlocks(a, b) ==
    {m \in (DOMAIN a) \X (DOMAIN b) \X (1..Len(a)) :
        /\ m[1] + m[3] - 1 <= Len(a)
        /\ m[2] + m[3] - 1 <= Len(b)
        /\ SubSeq(a, m[1], m[1] + m[3] - 1) = SubSeq(b, m[2], m[2] + m[3] - 1)}
LongestMatch(a, b) ==
    CHOOSE m \in CommonBlocks(a, b) :
        \A o \in CommonBlocks(a, b) :
            \/ o[3] < m[3]
            \/ (o[3] = m[3] /\ (m[1] < o[1] \/ (m[1] = o[1] /\ m[2] <= o[2])))

\* the characters SequenceMatcher.get_matching_blocks matches: the longest
\* block, then recursively the pieces to its left and to its right
RECURSIVE Matches(_, _)
Matches(a, b) ==
    IF CommonBlocks(a, b) = {} THEN 0
    ELSE LET m == LongestMatch(a, b)
         IN m[3] + Matches(SubSeq(a, 1, m[1] - 1), SubSeq(b, 1, m[2] - 1))
                 + Matches(SubSeq(a, m[1] + m[3], Len(a)), SubSeq(b, m[2] + m[3], Len(b)))

\* int(round(x)) of Python 3: to the nearest, a half to the even one
RoundHalfEven(r) ==
    LET f == RFloor(r)
        twice == RMul(RInt(2), RSub(r, RInt(f)))
    IN IF RLess(twice, RInt(1)) THEN f
       ELSE IF RLess(RInt(1), twice) THEN f + 1
       ELSE IF f % 2 = 0 THEN f ELSE f + 1

\* fuzz.ratio(s1, s2): 100 for equal strings, 0 when one is empty, else
\* int(round(100 * 2*M/T))
FuzzRatio(s1, s2) ==
    IF s1 = s2 THEN 100
    ELSE IF s1 = <<>> \/ s2 = <<>> THEN 0
    ELSE RoundHalfEven(Rat(200 * Matches(s1, s2), Len(s1) + Len(s2)))

\* mapping: a dict, held as the set of its items <<key, value>>
InMapping(mapping, v) == \E m \in mapping : m[1] = v
MappingGet(mapping, v) == (CHOOSE m \in mapping : m[1] = v)[2]

\* the assignment with key and value exchanged: mapping[val1] = val2
MapAssignReversed(mapping, val1, val2) ==
    {m \in mapping : m[1] # val1} \cup {<<val1, val2>>}

\* the assignment mapping[val2] = val1
MapAssign(mapping, val1, val2) ==
    {m \in mapping : m[1] # val2} \cup {<<val2, val1>>}

\* the two nested loops over unique_vals, at the pair (i, j) with i < j
RECURSIVE FuzzyFrom(_, _, _, _, _)
FuzzyFrom(unique_vals, threshold, mapping, i, j) ==
    IF i > Len(unique_vals) THEN mapping
    ELSE IF j > Len(unique_vals)
         THEN FuzzyFrom(unique_vals, threshold, mapping, i + 1, i + 2)
    ELSE LET val1 == unique_vals[i]
             val2 == unique_vals[j]
         IN IF InMapping(mapping, val1) \/ InMapping(mapping, val2)
            THEN FuzzyFrom(unique_vals, threshold, mapping, i, j + 1)
            ELSE IF FuzzRatio(Lower(val1.s), Lower(val2.s)) >= threshold
                 THEN FuzzyFrom(unique_vals, threshold,
                                MapAssign(mapping, val1, val2), i, j + 1)
                 ELSE FuzzyFrom(unique_vals, threshold, mapping, i, j + 1)

FuzzyMapping(col, threshold) == FuzzyFrom(Unique(col), threshold, {}, 1, 2)

\* df[col].map(mapping).fillna(df[col])
ApplyMapping(col, mapping) ==
    [i \in DOMAIN col |->
        IF InMapping(mapping, col[i]) THEN MappingGet(mapping, col[i]) ELSE col[i]]

RECURSIVE FuzzyColsFrom(_, _, _, _)
FuzzyColsFrom(self, df, cols, k) ==
    IF k > Len(cols) THEN Return(self, df)
    ELSE LET c == cols[k]
             col == df.data[c]
             mapping == FuzzyMapping(col, self.fuzzy_threshold)
         IN IF Len(Unique(col)) < 2 \/ mapping = {}
            THEN FuzzyColsFrom(self, df, cols, k + 1)
            ELSE FuzzyColsFrom(
                     Append1(self, Entry("Deduplicated text entries", df.names[c],
                                         Cardinality(mapping), "")),
                     SetCol(df, c, ApplyMapping(col, mapping), df.dtype[c]),
                     cols, k + 1)

deduplicate_text_fuzzy(self, df) == FuzzyColsFrom(self, df, ObjectCols(df), 1)

\* df[col].isna().mean() > self.nullity_threshold; the mean of no row is NaN
Nullity(col) == Rat(NaCount(col), Len(col))
HighNullity(self, col) ==
    col # <<>> /\ RLess(self.nullity_threshold, Nullity(col))

\* the entries of the dropped columns in column order, from column c
RECURSIVE DropEntriesFrom(_, _, _)
DropEntriesFrom(self, df, c) ==
    IF c > NCols(df) THEN <<>>
    ELSE (IF HighNullity(self, df.data[c])
          THEN <<Entry("Dropped column", df.names[c],
                       RoundHalfEven(RMul(RInt(10000), Nullity(df.data[c]))), "")>>
          ELSE <<>>) \o DropEntriesFrom(self, df, c + 1)

drop_high_nullity_columns(self, df) ==
    Return([self EXCEPT !.actions = @ \o DropEntriesFrom(self, df, 1)],
           TakeCols(df, [c \in Cols(df) |-> ~HighNullity(self, df.data[c])]))

\* the list with '%m-%d-%Y' and '%d-%m-%Y' exchanged
date_formats_exchanged ==
    << [fields |-> <<"Y", "m", "d">>, sep |-> "-"],
       [fields |-> <<"d", "m", "Y">>, sep |-> "/"],
       [fields |-> <<"d", "m", "Y">>, sep |-> "-"],
       [fields |-> <<"Y", "m", "d">>, sep |-> "/"],
       [fields |-> <<"m", "d", "Y">>, sep |-> "-"],
       [fields |-> <<"Y", "m", "d">>, sep |-> "."],
       [fields |-> <<"d", "m", "Y">>, sep |-> "."] >>

\* date_formats: each pattern as the order of its three directives and its
\* separator
date_formats ==
    << [fields |-> <<"Y", "m", "d">>, sep |-> "-"],
       [fields |-> <<"d", "m", "Y">>, sep |-> "/"],
       [fields |-> <<"m", "d", "Y">>, sep |-> "-"],
       [fields |-> <<"Y", "m", "d">>, sep |-> "/"],
       [fields |-> <<"d", "m", "Y">>, sep |-> "-"],
       [fields |-> <<"Y", "m", "d">>, sep |-> "."],
       [fields |-> <<"d", "m", "Y">>, sep |-> "."] >>

IsLeap(y) == (y % 4 = 0 /\ y % 100 # 0) \/ y % 400 = 0
DaysIn(y, m) ==
    IF m = 2 THEN (IF IsLeap(y) THEN 29 ELSE 28)
    ELSE IF m \in {4, 6, 9, 11} THEN 30 ELSE 31

\* the three pieces of s between its separators; <<>> unless there are
\* exactly two separators
SplitDate(s, sep) ==
    LET at == {i \in DOMAIN s : s[i] = sep}
    IN IF Cardinality(at) # 2 THEN <<>>
       ELSE LET p1 == CHOOSE i \in at : \A k \in at : i <= k
                p2 == CHOOSE i \in at : \A k \in at : k <= i
            IN <<SubSeq(s, 1, p1 - 1), SubSeq(s, p1 + 1, p2 - 1),
                 SubSeq(s, p2 + 1, Len(s))>>

\* whether a piece matches its directive: %Y four digits, %m and %d one or
\* two digits naming a month and a day from 1 on
FieldOk(f, piece) ==
    /\ AllDigits(piece)
    /\ IF f = "Y" THEN Len(piece) = 4
       ELSE Len(piece) \in {1, 2} /\ DigitsValue(piece, 0) >= 1

\* pd.to_datetime(value, format=fmt, errors='coerce') on one cell: the day
\* when the whole text matches the pattern and names a date, NaT otherwise
ParseDateCell(c, fmt) ==
    IF c.t # "str" THEN Null
    ELSE LET parts == SplitDate(c.s, fmt.sep)
             At(f) == DigitsValue(parts[CHOOSE i \in 1..3 : fmt.fields[i] = f], 0)
         IN IF parts = <<>> THEN Null
            ELSE IF ~ \A i \in 1..3 : FieldOk(fmt.fields[i], parts[i]) THEN Null
            ELSE IF At("m") > 12 \/ At("d") > DaysIn(At("Y"), At("m")) THEN Null
            ELSE IF At("Y") < 1678 \/ At("Y") > 2261 THEN Null
            ELSE Date(At("Y") * 10000 + At("m") * 100 + At("d"))

ParseDateCol(col, fmt) == [i \in DOMAIN col |-> ParseDateCell(col[i], fmt)]

\* the formats, in list order, that parse at least one value of the column
ParsingFormats(col) ==
    {k \in DOMAIN date_formats : DropNa(ParseDateCol(col, date_formats[k])) # <<>>}

RECURSIVE ParseDatesFrom(_, _, _)
ParseDatesFrom(self, df, c) ==
    IF c > NCols(df) THEN Return(self, df)
    ELSE IF IsDupLabel(df, c) THEN Raise(self, df)
    ELSE LET col == df.data[c]
             hits == ParsingFormats(col)
             first == CHOOSE k \in hits : \A o \in hits : k <= o
         IN IF df.dtype[c] = "object" /\ hits # {}
            THEN ParseDatesFrom(
                     Append1(self, Entry("Parsed as datetime", df.names[c], first, "")),
                     SetCol(df, c, ParseDateCol(col, date_formats[first]), "datetime64"),
                     c + 1)
            ELSE ParseDatesFrom(self, df, c + 1)

parse_dates(self, df) == ParseDatesFrom(self, df, 1)

\* the smallest and the largest value of a column that has one
ColMin(col) == LET xs == RSort(Vals(col)) IN xs[1]
ColMax(col) == LET xs == RSort(Vals(col)) IN xs[Len(xs)]

\* (df[col] - df[col].min()) / (df[col].max() - df[col].min()); 0/0 is NaN
MinMaxCol(col) ==
    [i \in DOMAIN col |->
        IF col[i].t # "num" \/ ColMax(col) = ColMin(col) THEN Null
        ELSE Num(RDiv(RSub(Val(col[i]), ColMin(col)),
                      RSub(ColMax(col), ColMin(col))))]

\* Series.std() squared: the sample variance, NaN (Null) for fewer than two
\* values
Variance(col) ==
    LET xs == Vals(col)
        mu == RDiv(RSum(xs), RInt(Len(xs)))
    IN IF Len(xs) < 2 THEN Null
       ELSE Num(RDiv(RSum([i \in DOMAIN xs |->
                              RMul(RSub(xs[i], mu), RSub(xs[i], mu))]),
                     RInt(Len(xs) - 1)))

\* (df[col] - df[col].mean()) / df[col].std(), held as sign(z) * z^2
StandardCol(col) ==
    LET var == Variance(col)
    IN [i \in DOMAIN col |->
          IF col[i].t # "num" \/ var.t # "num" \/ var.n = 0 THEN Null
          ELSE LET dev == RSub(Val(col[i]), Val(Mean(col)))
                   sq == RDiv(RMul(dev, dev), Val(var))
               IN ZSq(IF dev.n < 0 THEN RSub(RInt(0), sq) ELSE sq)]

RECURSIVE ScaleFrom(_, _, _, _)
ScaleFrom(self, df, cols, k) ==
    IF k > Len(cols) THEN Return(self, df)
    ELSE LET c == cols[k]
             col == df.data[c]
         IN CASE self.scale_method = "minmax" ->
                   ScaleFrom(Append1(self, Entry("Scaled", df.names[c], 0, "min-max")),
                             SetCol(df, c, MinMaxCol(col), "float64"), cols, k + 1)
              [] self.scale_method = "standard" ->
                   ScaleFrom(Append1(self, Entry("Scaled", df.names[c], 0, "standardization")),
                             SetCol(df, c, StandardCol(col), "float64"), cols, k + 1)
              [] OTHER ->
                   \* logger.info(self.actions[-1]) on a list that may be empty
                   IF self.actions = <<>> THEN Raise(self, df)
                   ELSE ScaleFrom(self, df, cols, k + 1)

scale_numeric_columns(self, df) ==
    IF ~self.scale_numeric THEN Return(self, df)
    ELSE ScaleFrom(self, df, NumericCols(df), 1)

(***************************************************************************)
(* DataCleaner.clean and the entry point run_cli as a state machine.       *)
(***************************************************************************)
VARIABLES
    self,       \* the DataCleaner object
    df,         \* the frame the current call holds
    pc,         \* the position of the program
    entry,      \* the operation under way: "clean", "cli" or a single pass
    advisory,   \* the LLMProcessor: "absent", "failing" or "responding"
    input,      \* the frame the operation was given
    arg,        \* the strategy argument of a direct handle_missing_values call
    col_i,      \* run_cli: the position of the loop over df.columns
    calls,      \* the calls of passes made so far: pass, frame in, frame out
    ret,        \* what the operation returned: [returned, df]
    file_path,  \* DataLoader: the path validate_file is called with
    fs,         \* DataLoader: the paths that exist in the file system
    outcome     \* DataLoader: what validate_file did: "none" before the call,
                \* "True", or the exception it raised

vars == <<self, df, pc, entry, advisory, input, arg, col_i, calls, ret,
          file_path, fs, outcome>>

\* the variables of the loader, which the engine does not touch
loader_vars == <<file_path, fs, outcome>>
\* no file is involved
NoLoader == file_path = <<>> /\ fs = {} /\ outcome = "none"

\* the order of clean() with detect_outliers and normalize_text exchanged
CleanOrderSwapped ==
    <<"remove_duplicates", "handle_missing_values", "standardize_columns",
      "fix_data_types", "normalize_text", "detect_outliers",
      "deduplicate_text_fuzzy", "drop_high_nullity_columns", "parse_dates",
      "scale_numeric_columns">>

\* the order in which clean() calls the passes
CleanOrder ==
    <<"remove_duplicates", "handle_missing_values", "standardize_columns",
      "fix_data_types", "detect_outliers", "normalize_text",
      "deduplicate_text_fuzzy", "drop_high_nullity_columns", "parse_dates",
      "scale_numeric_columns">>

\* the position after the call of pass p in clean(): the next pass, or the
\* return statement
AfterPass(p) ==
    LET k == CHOOSE i \in DOMAIN CleanOrder : CleanOrder[i] = p
    IN IF k = Len(CleanOrder) THEN "return" ELSE CleanOrder[k + 1]

\* one call of a pass by name, as clean() makes it
ApplyPass(p, slf, frame, iso) ==
    CASE p = "remove_duplicates" -> remove_duplicates(slf, frame)
      [] p = "handle_missing_values" -> handle_missing_values(slf, frame, "auto")
      [] p = "standardize_columns" -> standardize_columns(slf, frame)
      [] p = "fix_data_types" -> fix_data_types(slf, frame)
      [] p = "detect_outliers" -> detect_outliers(slf, frame, iso)
      [] p = "normalize_text" -> normalize_text(slf, frame)
      [] p = "deduplicate_text_fuzzy" -> deduplicate_text_fuzzy(slf, frame)
      [] p = "drop_high_nullity_columns" -> drop_high_nullity_columns(slf, frame)
      [] p = "parse_dates" -> parse_dates(slf, frame)
      [] p = "scale_numeric_columns" -> scale_numeric_columns(slf, frame)

EmptyFrame == [names |-> <<>>, dtype |-> <<>>, data |-> <<>>, index |-> <<>>]
NoRet == [returned |-> FALSE, df |-> EmptyFrame]

\* the record of a call in the history
Call(p, r) ==
    [pass |-> p, in |-> df, out |-> r.df, ok |-> r.ok,
     logged |-> Len(r.self.actions) - Len(self.actions)]

\* the effect of the call of pass p with result r inside clean()
CleanCall(p, r) ==
    /\ self' = r.self
    /\ df' = r.df
    /\ calls' = Append(calls, Call(p, r))
    /\ pc' = IF r.ok THEN AfterPass(p) ELSE "raised"
    /\ UNCHANGED <<entry, advisory, input, arg, col_i, ret, loader_vars>>

\* the sample fit_predict sees for row r: the numeric columns, a missing
\* cell replaced by the mean of its column
IsoSample(frame, r) ==
    [k \in DOMAIN NumericCols(frame) |->
        IF IsNa(frame.data[NumericCols(frame)[k]][r])
        THEN Mean(frame.data[NumericCols(frame)[k]])
        ELSE frame.data[NumericCols(frame)[k]][r]]

\* what fit_predict may label as outliers under 'isolation_forest' (the
\* labels are not read otherwise). With contamination=0.1 the rows labelled
\* -1 are those whose score lies strictly below the 10th percentile of the
\* scores (linear interpolation at position 0.1*(n-1)): at most
\* ceil(0.1*(n-1)) of n rows, and equal samples have equal scores. Two
\* distinct samples are isolated at the same depth by every tree, so a
\* score below the others takes three distinct samples. Which rows score
\* lowest depends on the fitted trees.
IsoLabels(slf, frame) ==
    IF slf.outlier_method = "isolation_forest" /\ NumericCols(frame) # <<>>
       /\ ~IsoFitRaises(frame)
    THEN {l \in [Rows(frame) -> BOOLEAN] :
            /\ CountTrue(l) <= (NRows(frame) + 8) \div 10
            /\ CountTrue(l) > 0 =>
                  Cardinality({IsoSample(frame, r) : r \in Rows(frame)}) >= 3
            /\ \A r1, r2 \in Rows(frame) :
                  IsoSample(frame, r1) = IsoSample(frame, r2) => l[r1] = l[r2]}
    ELSE {[r \in Rows(frame) |-> FALSE]}

\* clean() is entered: its first statement is the first pass
CleanEnter ==
    /\ pc = "clean"
    /\ pc' = CleanOrder[1]
    /\ UNCHANGED <<self, df, entry, advisory, input, arg, col_i, calls, ret, loader_vars>>

CleanRemoveDuplicates ==
    /\ pc = "remove_duplicates" /\ entry \in {"clean", "cli"}
    /\ CleanCall("remove_duplicates", remove_duplicates(self, df))

CleanHandleMissing ==
    /\ pc = "handle_missing_values" /\ entry \in {"clean", "cli"}
    /\ CleanCall("handle_missing_values", handle_missing_values(self, df, "auto"))

CleanStandardize ==
    /\ pc = "standardize_columns" /\ entry \in {"clean", "cli"}
    /\ CleanCall("standardize_columns", standardize_columns(self, df))

CleanFixTypes ==
    /\ pc = "fix_data_types" /\ entry \in {"clean", "cli"}
    /\ CleanCall("fix_data_types", fix_data_types(self, df))

CleanDetectOutliers ==
    /\ pc = "detect_outliers" /\ entry \in {"clean", "cli"}
    /\ \E iso \in IsoLabels(self, df) :
          CleanCall("detect_outliers", detect_outliers(self, df, iso))

CleanNormalizeText ==
    /\ pc = "normalize_text" /\ entry \in {"clean", "cli"}
    /\ CleanCall("normalize_text", normalize_text(self, df))

CleanFuzzy ==
    /\ pc = "deduplicate_text_fuzzy" /\ entry \in {"clean", "cli"}
    /\ CleanCall("deduplicate_text_fuzzy", deduplicate_text_fuzzy(self, df))

CleanDropNullity ==
    /\ pc = "drop_high_nullity_columns" /\ entry \in {"clean", "cli"}
    /\ CleanCall("drop_high_nullity_columns", drop_high_nullity_columns(self, df))

CleanParseDates ==
    /\ pc = "parse_dates" /\ entry \in {"clean", "cli"}
    /\ CleanCall("parse_dates", parse_dates(self, df))

CleanScale ==
    /\ pc = "scale_numeric_columns" /\ entry \in {"clean", "cli"}
    /\ CleanCall("scale_numeric_columns", scale_numeric_columns(self, df))

\* return df
CleanReturn ==
    /\ pc = "return"
    /\ ret' = [returned |-> TRUE, df |-> df]
    /\ pc' = "done"
    /\ UNCHANGED <<self, df, entry, advisory, input, arg, col_i, calls, loader_vars>>

CleanNext ==
    \/ CleanEnter
    \/ CleanRemoveDuplicates
    \/ CleanHandleMissing
    \/ CleanStandardize
    \/ CleanFixTypes
    \/ CleanDetectOutliers
    \/ CleanNormalizeText
    \/ CleanFuzzy
    \/ CleanDropNullity
    \/ CleanParseDates
    \/ CleanScale
    \/ CleanReturn

(***************************************************************************)
(* run_cli: the advisory calls, then clean(). The LLMProcessor's answers   *)
(* are inputs: a failing one answers every call with its default ({} for   *)
(* the two mappings, {"strategy": "auto"}).                                *)
(***************************************************************************)
\* what suggest_column_names may return: {} or a new label for the first
\* column
NameSuggestions(frame) ==
    IF advisory = "responding" /\ NCols(frame) > 0
    THEN {{}, {<<frame.names[1], <<"x">> >>}}
    ELSE {{}}

\* missing_strategy.get('strategy', 'auto')
StrategySuggestions ==
    IF advisory = "responding" THEN {"auto", "mean", "drop"} ELSE {"auto"}

\* what detect_inconsistent_categories may return for an object column: {}
\* or a new spelling for the first value of the column
CategorySuggestions(col) ==
    IF advisory = "responding" /\ Unique(col) # <<>>
    THEN {{}, {<<Unique(col)[1], Str(<<"z">>)>>}}
    ELSE {{}}

\* df.rename(columns=col_suggestions, inplace=True)
Rename(frame, mapping) ==
    [frame EXCEPT !.names = [c \in Cols(frame) |->
        IF InMapping(mapping, frame.names[c]) THEN MappingGet(mapping, frame.names[c])
        ELSE frame.names[c]]]

CliSuggestNames ==
    /\ pc = "cli_names"
    /\ \E col_suggestions \in NameSuggestions(df) :
          df' = IF col_suggestions # {} THEN Rename(df, col_suggestions) ELSE df
    /\ col_i' = 1
    /\ pc' = "cli_columns"
    /\ UNCHANGED <<self, entry, advisory, input, arg, calls, ret, loader_vars>>

\* one turn of the loop over df.columns: the strategy call, the
\* handle_missing_values call on the whole frame, the category call
CliColumn ==
    /\ pc = "cli_columns"
    /\ col_i <= NCols(df)
    /\ \E strategy \in StrategySuggestions :
          LET r == handle_missing_values(self, df, strategy)
          IN /\ self' = r.self
             /\ IF ~r.ok
                THEN df' = r.df /\ pc' = "raised" /\ col_i' = col_i
                ELSE /\ \E category_fixes \in
                            IF r.df.dtype[col_i] = "object"
                            THEN CategorySuggestions(r.df.data[col_i]) ELSE {{}} :
                          df' = IF category_fixes # {}
                                THEN SetCol(r.df, col_i,
                                            ApplyMapping(r.df.data[col_i], category_fixes),
                                            "object")
                                ELSE r.df
                     /\ col_i' = col_i + 1
                     /\ pc' = "cli_columns"
    /\ UNCHANGED <<entry, advisory, input, arg, calls, ret, loader_vars>>

\* df = cleaner.clean(df)
CliCallClean ==
    /\ pc = "cli_columns"
    /\ col_i > NCols(df)
    /\ pc' = "clean"
    /\ UNCHANGED <<self, df, entry, advisory, input, arg, col_i, calls, ret, loader_vars>>

CliNext == CliSuggestNames \/ CliColumn \/ CliCallClean

(***************************************************************************)
(* The frames and configurations the runs start from.                      *)
(***************************************************************************)
\* a frame with a RangeIndex
Frame(names, dtypes, data) ==
    [names |-> names, dtype |-> dtypes, data |-> data,
     index |-> [i \in 1..(IF data = <<>> THEN 0 ELSE Len(data[1])) |-> i - 1]]

\* the frames whose rows are drawn from a set of rows, at most n of them
RECURSIVE RowSeqsOfLen(_, _)
RowSeqsOfLen(rows, n) ==
    IF n = 0 THEN {<<>>}
    ELSE {Append(rs, r) : rs \in RowSeqsOfLen(rows, n - 1), r \in rows}
RowSeqs(rows, n) == UNION {RowSeqsOfLen(rows, k) : k \in 0..n}
FrameOfRows(names, dtypes, rs) ==
    Frame(names, dtypes, [c \in DOMAIN names |-> [i \in DOMAIN rs |-> rs[i][c]]])

\* a numeric column is int64 when it holds whole numbers only, else float64
FramesOfRows(names, kinds, rows, n) ==
    {LET f == FrameOfRows(names, kinds, rs)
     IN [f EXCEPT !.dtype = [c \in DOMAIN names |->
            IF kinds[c] = "object" THEN "object" ELSE NumericDtypeOf(f.data[c])]] :
        rs \in RowSeqs(rows, n)}

\* DataCleaner() with the defaults of __init__
DefaultCleaner == DataCleaner(Rat(4, 5), "iqr", "cap", 90, FALSE, "minmax")

PipelineNames ==
    { << <<"A","g","e">>, <<"F","i","r","s","t"," ","N","a","m","e">> >>,
      << <<"A"," ","B">>, <<"a","_","b">> >> }
PipelineRows ==
    { <<NumInt(1), Str(<<"a","b">>)>>,
      <<NumInt(9), Str(<<"A","c"," ">>)>>,
      <<Null, Str(<<"a","b">>)>>,
      <<NumInt(1), Null>>,
      <<NumInt(9), Str(<<"a","c">>)>>,
      <<Null, Null>> }

\* frames with dates and numerals in their text column
ExampleNames == << <<"I","d">>, <<"S","i","g","n","u","p","-","D","a","t","e">> >>
ExampleRows ==
    { <<NumInt(1), Str(<<"2","0","2","1","-","0","1","-","0","2">>)>>,
      <<NumInt(2), Str(<<"0","3","/","0","4","/","2","0","2","1">>)>>,
      <<NumInt(3), Str(<<"7">>)>>,
      <<NumInt(40), Str(<<"1",".","5">>)>> }

PipelineFrames ==
    UNION {FramesOfRows(names, <<"number", "object">>, PipelineRows, MaxRows) :
              names \in PipelineNames}
    \cup FramesOfRows(ExampleNames, <<"number", "object">>, ExampleRows, MaxRows)

\* an entry point, the advisory service behind it and the configuration
Scenarios ==
    { [entry |-> "clean", advisory |-> "absent", cleaner |-> DefaultCleaner],
      [entry |-> "cli", advisory |-> "failing", cleaner |-> DefaultCleaner],
      [entry |-> "clean", advisory |-> "absent",
       cleaner |-> DataCleaner(Rat(3, 10), "isolation_forest", "remove", 50, TRUE, "standard")],
      [entry |-> "cli", advisory |-> "responding",
       cleaner |-> DataCleaner(Rat(1, 2), "iqr", "flag", 50, TRUE, "minmax")] }

Init ==
    /\ df \in PipelineFrames
    /\ input = df
    /\ \E sc \in Scenarios :
          /\ self = sc.cleaner
          /\ entry = sc.entry
          /\ advisory = sc.advisory
          /\ pc = IF sc.entry = "cli" THEN "cli_names" ELSE "clean"
    /\ arg = "auto"
    /\ col_i = 0
    /\ calls = <<>>
    /\ ret = NoRet
    /\ NoLoader

Next == CleanNext \/ CliNext

Spec == Init /\ [][Next]_vars

(***************************************************************************)
(* The passes called directly (the engine's per-pass entry points), each   *)
(* on frames that exercise it.                                             *)
(***************************************************************************)
\* the effect of a direct call of pass p with result r
PassCall(p, r) ==
    /\ self' = r.self
    /\ df' = r.df
    /\ calls' = Append(calls, Call(p, r))
    /\ pc' = IF r.ok THEN "done" ELSE "raised"
    /\ ret' = IF r.ok THEN [returned |-> TRUE, df |-> r.df] ELSE NoRet
    /\ UNCHANGED <<entry, advisory, input, arg, col_i, loader_vars>>

\* a direct call of pass p on one of frames, with one of cleaners and, for
\* handle_missing_values, one of strategies
InitPass(p, frames, cleaners, strategies) ==
    /\ df \in frames
    /\ input = df
    /\ self \in cleaners
    /\ arg \in strategies
    /\ entry = p
    /\ advisory = "absent"
    /\ pc = "call"
    /\ col_i = 0
    /\ calls = <<>>
    /\ ret = NoRet
    /\ NoLoader

CallRemoveDuplicates ==
    /\ pc = "call" /\ entry = "remove_duplicates"
    /\ PassCall("remove_duplicates", remove_duplicates(self, df))

InitDup == InitPass("remove_duplicates", PipelineFrames, {DefaultCleaner}, {"auto"})
SpecDup == InitDup /\ [][CallRemoveDuplicates]_vars

CallHandleMissing ==
    /\ pc = "call" /\ entry = "handle_missing_values"
    /\ PassCall("handle_missing_values", handle_missing_values(self, df, arg))

MissingNames == << <<"c","i","t","y">>, <<"a">>, <<"b">> >>
MissingRows ==
    { <<Str(<<"x">>), NumInt(1), NumInt(1)>>,
      <<Null, NumInt(1), Null>>,
      <<Str(<<"y">>), Null, NumInt(9)>>,
      <<Str(<<"x">>), NumInt(9), Null>>,
      <<Null, Null, Null>> }
MissingFrames ==
    {[f EXCEPT !.dtype = <<"object", "float64", "float64">>] :
        f \in FramesOfRows(MissingNames, <<"object", "number", "number">>,
                           MissingRows, MaxMissingRows)}
Strategies == {"auto", "mean", "median", "mode", "drop"}

InitMissing ==
    InitPass("handle_missing_values", MissingFrames, {DefaultCleaner}, Strategies)
SpecMissing == InitMissing /\ [][CallHandleMissing]_vars

CallStandardize ==
    /\ pc = "call" /\ entry = "standardize_columns"
    /\ PassCall("standardize_columns", standardize_columns(self, df))

NamePool ==
    { <<"F","i","r","s","t"," ","N","a","m","e">>,
      <<"L","a","s","t","-","N","a","m","e">>,
      <<"A","g","e","@","#">>,
      <<"a"," "," ","-","b">>,
      <<"I","D","_","1">>,
      <<"a","_","b">> }
\* one-row frames whose column k holds the number k
NameFrames ==
    {Frame(names, [c \in DOMAIN names |-> "int64"],
           [c \in DOMAIN names |-> <<NumInt(c)>>]) :
        names \in UNION {[1..k -> NamePool] : k \in 1..MaxNameCols}}

InitNames == InitPass("standardize_columns", NameFrames, {DefaultCleaner}, {"auto"})
SpecNames == InitNames /\ [][CallStandardize]_vars

CallDetectOutliers ==
    /\ pc = "call" /\ entry = "detect_outliers"
    /\ \E iso \in IsoLabels(self, df) :
          PassCall("detect_outliers", detect_outliers(self, df, iso))

OutlierNames == << <<"v">>, <<"w">> >>
OutlierRows ==
    { <<NumInt(1), NumInt(1)>>,
      <<NumInt(2), NumInt(100)>>,
      <<NumInt(3), NumInt(2)>>,
      <<NumInt(4), Null>>,
      <<NumInt(100), NumInt(4)>> }
OutlierFrames ==
    FramesOfRows(OutlierNames, <<"number", "number">>, OutlierRows, MaxOutlierRows)
OutlierCleaners ==
    {DataCleaner(Rat(4, 5), "iqr", action, 90, FALSE, "minmax") :
        action \in {"cap", "flag"}}

InitOutliers == InitPass("detect_outliers", OutlierFrames, OutlierCleaners, {"auto"})
SpecOutliers == InitOutliers /\ [][CallDetectOutliers]_vars

CallFuzzy ==
    /\ pc = "call" /\ entry = "deduplicate_text_fuzzy"
    /\ PassCall("deduplicate_text_fuzzy", deduplicate_text_fuzzy(self, df))

FuzzyNames == << <<"n","a","m","e">> >>
FuzzyRows ==
    { <<Null>>, <<Str(<<>>)>>, <<Str(<<"a","b">>)>>, <<Str(<<"A","B">>)>>,
      <<Str(<<"a","b","c">>)>>, <<Str(<<"a","b","c","d">>)>> }
FuzzyFrames == FramesOfRows(FuzzyNames, <<"object">>, FuzzyRows, MaxFuzzyRows)
FuzzyCleaners ==
    {DataCleaner(Rat(4, 5), "iqr", "cap", threshold, FALSE, "minmax") :
        threshold \in {0, 80, 90, 100}}

InitFuzzy == InitPass("deduplicate_text_fuzzy", FuzzyFrames, FuzzyCleaners, {"auto"})
SpecFuzzy == InitFuzzy /\ [][CallFuzzy]_vars

\* detect_outliers with action 'remove', under either method
RemoveFrames ==
    FramesOfRows(OutlierNames, <<"number", "number">>, OutlierRows, MaxRemoveRows)
RemoveCleaners ==
    {DataCleaner(Rat(4, 5), method, "remove", 90, FALSE, "minmax") :
        method \in {"iqr", "isolation_forest"}}

InitRemove == InitPass("detect_outliers", RemoveFrames, RemoveCleaners, {"auto"})
SpecRemove == InitRemove /\ [][CallDetectOutliers]_vars

CallParseDates ==
    /\ pc = "call" /\ entry = "parse_dates"
    /\ PassCall("parse_dates", parse_dates(self, df))

\* a text column of dates in several notations beside a column of numbers
DateNames == << <<"w","h","e","n">>, <<"n">> >>
DateRows ==
    { <<Str(<<"2","0","2","1","-","0","1","-","0","2">>), NumInt(7)>>,
      <<Str(<<"0","3","/","0","4","/","2","0","2","1">>), NumInt(7)>>,
      <<Str(<<"0","1","-","0","2","-","2","0","2","1">>), NumInt(7)>>,
      <<Str(<<"1","3","-","0","1","-","2","0","2","1">>), NumInt(8)>>,
      <<Str(<<"2","0","2","1",".","0","1",".","0","2">>), NumInt(8)>>,
      <<Str(<<"a","b","c">>), NumInt(8)>>,
      <<Null, NumInt(9)>> }
DateFrames == FramesOfRows(DateNames, <<"object", "number">>, DateRows, MaxDateRows)

InitDates == InitPass("parse_dates", DateFrames, {DefaultCleaner}, {"auto"})
SpecDates == InitDates /\ [][CallParseDates]_vars

(***************************************************************************)
(* The construction of a DataCleaner from configuration values, followed   *)
(* by clean(). Before the constructor has run, self holds its arguments.   *)
(***************************************************************************)
\* DataCleaner.__init__: the arguments are stored as they are given
Construct ==
    /\ pc = "construct"
    /\ self' = DataCleaner(self.nullity_threshold, self.outlier_method,
                           self.outlier_action, self.fuzzy_threshold,
                           self.scale_numeric, self.scale_method)
    /\ pc' = "clean"
    /\ UNCHANGED <<df, entry, advisory, input, arg, col_i, calls, ret, loader_vars>>

\* configurations: the defaults, and the defaults with one value replaced
ConfigCleaners ==
    { DefaultCleaner,
      DataCleaner(Rat(1, 2), "iqr", "flag", 0, TRUE, "standard"),
      DataCleaner(Rat(4, 5), "iqr", "cap", 150, FALSE, "minmax"),
      DataCleaner(Rat(4, 5), "iqr", "cap", 0 - 5, FALSE, "minmax"),
      DataCleaner(Rat(3, 2), "iqr", "cap", 90, FALSE, "minmax"),
      DataCleaner(Rat(0 - 1, 2), "iqr", "cap", 90, FALSE, "minmax"),
      DataCleaner(Rat(4, 5), "zscore", "cap", 90, FALSE, "minmax"),
      DataCleaner(Rat(4, 5), "iqr", "delete", 90, FALSE, "minmax"),
      DataCleaner(Rat(4, 5), "iqr", "cap", 90, TRUE, "robust") }
ConfigFrames ==
    FramesOfRows(<< <<"A","g","e">>, <<"F","i","r","s","t"," ","N","a","m","e">> >>,
                 <<"number", "object">>, PipelineRows, MaxConfigRows)

InitConfig ==
    /\ df \in ConfigFrames
    /\ input = df
    /\ self \in ConfigCleaners
    /\ entry = "clean"
    /\ advisory = "absent"
    /\ pc = "construct"
    /\ arg = "auto"
    /\ col_i = 0
    /\ calls = <<>>
    /\ ret = NoRet
    /\ NoLoader

NextConfig == Construct \/ CleanNext
SpecConfig == InitConfig /\ [][NextConfig]_vars

(***************************************************************************)
(* DataLoader.validate_file. A path is the sequence of its characters.     *)
(***************************************************************************)
\* self.supported_formats
supported_formats == {<<".","c","s","v">>, <<".","x","l","s","x">>, <<".","x","l","s">>}

\* the position of the last occurrence of character c in s, 0 when there is
\* none (str.rfind, counted from 1)
RFind(s, c) ==
    IF \E i \in DOMAIN s : s[i] = c
    THEN CHOOSE i \in DOMAIN s : s[i] = c /\ \A j \in DOMAIN s : s[j] = c => j <= i
    ELSE 0

\* Path(file_path).name: the last component of the path
PathName(path) == SubSeq(path, RFind(path, "/") + 1, Len(path))

\* Path(file_path).suffix: the name from its last dot on, when that dot is
\* neither the first nor the last character of the name; else ''
PathSuffix(path) ==
    LET name == PathName(path)
        i == RFind(name, ".")
    IN IF 1 < i /\ i < Len(name) THEN SubSeq(name, i, Len(name)) ELSE <<>>

\* what validate_file does for a path, given the paths that exist
validate_file(exists, path) ==
    IF path \notin exists THEN "FileNotFoundError"
    ELSE IF PathSuffix(path) \notin supported_formats THEN "ValueError"
    ELSE "True"

CallValidateFile ==
    /\ pc = "call" /\ entry = "validate_file"
    /\ outcome' = validate_file(fs, file_path)
    /\ pc' = IF validate_file(fs, file_path) = "True" THEN "done" ELSE "raised"
    /\ UNCHANGED <<self, df, entry, advisory, input, arg, col_i, calls, ret,
                   file_path, fs>>

LoaderPaths ==
    { <<"n","o","n","e","x","i","s","t","e","n","t",".","c","s","v">>,
      <<"t","e","s","t",".","t","x","t">>,
      <<"d","a","t","a",".","c","s","v">>,
      <<"a",".","x","l","s","x">>,
      <<"b",".","x","l","s">>,
      <<"d","a","t","a",".","C","S","V">>,
      <<"n","o","e","x","t">>,
      <<".","c","s","v">>,
      <<"d",".","c","s","v","/","x">> }

InitLoader ==
    /\ file_path \in LoaderPaths
    /\ fs \in SUBSET LoaderPaths
    /\ outcome = "none"
    /\ entry = "validate_file"
    /\ pc = "call"
    /\ self = DefaultCleaner
    /\ df = EmptyFrame
    /\ input = EmptyFrame
    /\ advisory = "absent"
    /\ arg = "auto"
    /\ col_i = 0
    /\ calls = <<>>
    /\ ret = NoRet

SpecLoader == InitLoader /\ [][CallValidateFile]_vars

(***************************************************************************)
(* clean() as a function: the passes in CleanOrder, each on the result of  *)
(* the one before, stopping at the first that raises. Under 'iqr' no       *)
(* labels of an isolation forest are read.                                 *)
(***************************************************************************)
NoLabels(frame) == [r \in Rows(frame) |-> FALSE]
RECURSIVE CleanFrom(_, _, _)
CleanFrom(slf, frame, k) ==
    IF k > Len(CleanOrder) THEN Return(slf, frame)
    ELSE LET r == ApplyPass(CleanOrder[k], slf, frame, NoLabels(frame))
         IN IF r.ok THEN CleanFrom(r.self, r.df, k + 1) ELSE r
clean(slf, frame) == CleanFrom(slf, frame, 1)

\* the cleaner as constructed: no action logged, no flag set
Fresh(slf) == [slf EXCEPT !.actions = <<>>, !.outlier_flags = <<>>]

(***************************************************************************)
(* The claims.                                                             *)
(***************************************************************************)
\* the order of the passes as the specification lists it
C1_Order ==
    <<"remove_duplicates", "handle_missing_values", "standardize_columns",
      "fix_data_types", "detect_outliers", "normalize_text",
      "deduplicate_text_fuzzy", "drop_high_nullity_columns", "parse_dates",
      "scale_numeric_columns">>
C1_Rank(p) == CHOOSE i \in DOMAIN C1_Order : C1_Order[i] = p
\* the pass that writes an entry of the action log
C1_PassOfEntry(e) ==
    CASE e.op = "Removed duplicate rows" -> "remove_duplicates"
      [] e.op = "Handled missing values" -> "handle_missing_values"
      [] e.op = "Standardized column names" -> "standardize_columns"
      [] e.op = "Checked and fixed data types" -> "fix_data_types"
      [] e.op \in {"Capped outliers", "Removed outliers", "Flagged outliers"} ->
            "detect_outliers"
      [] e.op = "Normalized text" -> "normalize_text"
      [] e.op = "Deduplicated text entries" -> "deduplicate_text_fuzzy"
      [] e.op = "Dropped column" -> "drop_high_nullity_columns"
      [] e.op = "Parsed as datetime" -> "parse_dates"
      [] e.op = "Scaled" -> "scale_numeric_columns"
\* the positions in self.actions of the entries the calls of clean() appended
C1_CleanEntries ==
    {i \in DOMAIN self.actions :
        i > Len(self.actions) - SeqSum([k \in DOMAIN calls |-> calls[k].logged])}

\* C1: clean() calls the ten passes in the listed order, each after the one
\* before has returned and on the frame that one returned; the entries it
\* appends to the action log are grouped by pass in that order; the value
\* it returns is the output of the last pass.
C1_CleanRunsPassesInOrder ==
    /\ Len(calls) <= Len(C1_Order)
    /\ \A k \in DOMAIN calls :
          /\ calls[k].pass = C1_Order[k]
          /\ k > 1 => calls[k - 1].ok /\ calls[k].in = calls[k - 1].out
    /\ pc \in Range(C1_Order) => pc = C1_Order[Len(calls) + 1]
    /\ (entry = "clean" /\ calls # <<>>) => calls[1].in = input
    /\ \A i, j \in C1_CleanEntries :
          i < j => C1_Rank(C1_PassOfEntry(self.actions[i]))
                     <= C1_Rank(C1_PassOfEntry(self.actions[j]))
    /\ pc = "done" =>
          /\ ret.returned
          /\ Len(calls) = Len(C1_Order)
          /\ ret.df = calls[Len(calls)].out

\* C1 witness: a clean() call that returned after at least four of its
\* passes changed the frame, with entries of at least four passes in the log
C1_Witness ==
    /\ pc = "done"
    /\ entry = "clean"
    /\ Cardinality({k \in DOMAIN calls : calls[k].in # calls[k].out}) >= 4
    /\ Cardinality({C1_PassOfEntry(self.actions[i]) : i \in C1_CleanEntries}) >= 4

\* C2: after remove_duplicates no two remaining rows are equal in every
\* column, the frame has at most the rows it had, and the entry the pass
\* appended reports the number of rows before minus the number after.
C2_NoDuplicateRowLeft ==
    (entry = "remove_duplicates" /\ pc # "call") =>
        /\ pc = "done"
        /\ \A r1, r2 \in Rows(df) : r1 # r2 => Row(df, r1) # Row(df, r2)
        /\ NRows(df) <= NRows(input)
        /\ Len(self.actions) = 1
        /\ self.actions[1].op = "Removed duplicate rows"
        /\ self.actions[1].n = NRows(input) - NRows(df)

\* C2 witness: a call that removed a duplicate that was not next to its
\* first occurrence and kept at least two rows
C2_Witness ==
    /\ entry = "remove_duplicates" /\ pc = "done"
    /\ NRows(input) = 3 /\ NRows(df) = 2
    /\ Row(input, 1) = Row(input, 3)
    /\ self.actions[1].n = 1

\* C3 (as claimed): after handle_missing_values(df, strategy="mean") returns,
\* every column that had a missing cell has none, every cell that was
\* present holds the value it held, and the frame has the rows it had.
C3_MeanLeavesNoMissingCell ==
    (entry = "handle_missing_values" /\ arg = "mean" /\ pc = "done") =>
        /\ NRows(df) = NRows(input)
        /\ \A c \in Cols(input) :
              NaCount(input.data[c]) > 0 =>
                  /\ NaCount(df.data[c]) = 0
                  /\ \A r \in Rows(input) :
                        NotNa(input.data[c][r]) => df.data[c][r] = input.data[c][r]

\* the column with every number negated: its skewness is the opposite
C4_Negated(col) ==
    [i \in DOMAIN col |->
        IF col[i].t = "num" THEN Num(RSub(RInt(0), Val(col[i]))) ELSE col[i]]
\* the method the claim assigns to a column from the column's own kind
C4_MethodOf(frame, c) ==
    IF IsNumericDtype(frame.dtype[c])
    THEN (IF SkewBelow2(frame.data[c]) /\ SkewBelow2(C4_Negated(frame.data[c]))
          THEN "mean" ELSE "median")
    ELSE "mode"

\* C4 (as claimed): with strategy "auto", every column that has a missing
\* cell is filled by the method of its own kind (numeric: mean when the
\* magnitude of the skewness is below 2, else median; other: mode), whatever
\* columns were processed before it.
C4_AutoChoosesByOwnKind ==
    (entry = "handle_missing_values" /\ arg = "auto" /\ pc = "done") =>
        \A c \in Cols(input) :
            NaCount(input.data[c]) > 0 =>
                \E i \in DOMAIN self.actions :
                    /\ self.actions[i].op = "Handled missing values"
                    /\ self.actions[i].col = input.names[c]
                    /\ self.actions[i].how = C4_MethodOf(input, c)

\* the position of a value in the first-seen order of the column's distinct
\* non-null values
C5_Seen(col, v) == CHOOSE i \in DOMAIN Unique(col) : Unique(col)[i] = v
C5_Mapping == FuzzyMapping(input.data[1], self.fuzzy_threshold)

\* C5: the mapping deduplicate_text_fuzzy builds over a text column maps a
\* value to one canonical value only, to one seen strictly earlier in the
\* column, and has no cycle; the column returned is the column with the
\* mapping applied; a column with fewer than two distinct non-null values
\* comes back unchanged and nothing is logged.
C5_MappingPointsEarlier ==
    (entry = "deduplicate_text_fuzzy" /\ pc # "call") =>
        /\ pc = "done"
        /\ \A m1, m2 \in C5_Mapping : m1[1] = m2[1] => m1[2] = m2[2]
        /\ \A m \in C5_Mapping :
              /\ m[1] \in Range(Unique(input.data[1]))
              /\ m[2] \in Range(Unique(input.data[1]))
              /\ C5_Seen(input.data[1], m[2]) < C5_Seen(input.data[1], m[1])
        /\ \A S \in SUBSET {m[1] : m \in C5_Mapping} :
              S # {} => \E v \in S : MappingGet(C5_Mapping, v) \notin S
        /\ \A r \in Rows(input) :
              /\ df.data[1][r] # input.data[1][r] =>
                    /\ <<input.data[1][r], df.data[1][r]>> \in C5_Mapping
                    /\ C5_Seen(input.data[1], df.data[1][r])
                          < C5_Seen(input.data[1], input.data[1][r])
              /\ df.data[1][r] = input.data[1][r] =>
                    ~InMapping(C5_Mapping, input.data[1][r])
        /\ Len(Unique(input.data[1])) < 2 => df = input /\ self.actions = <<>>

\* C5 witness: a column of three distinct values of which the later two were
\* replaced by the first
C5_Witness ==
    /\ entry = "deduplicate_text_fuzzy" /\ pc = "done"
    /\ Len(Unique(input.data[1])) = 3
    /\ Cardinality(C5_Mapping) = 2
    /\ \A r \in Rows(df) : df.data[1][r] = input.data[1][1]
    /\ self.actions # <<>> /\ self.actions[1].n = 2

\* the bounds the claim names, from the quartiles of the column
C6_Q1(col) == Val(Quantile(col, Rat(1, 4)))
C6_Q3(col) == Val(Quantile(col, Rat(3, 4)))
C6_Lower(col) ==
    RSub(C6_Q1(col), RDiv(RMul(RInt(3), RSub(C6_Q3(col), C6_Q1(col))), RInt(2)))
C6_Upper(col) ==
    RAdd(C6_Q3(col), RDiv(RMul(RInt(3), RSub(C6_Q3(col), C6_Q1(col))), RInt(2)))
C6_Inside(col, x) == RLeq(C6_Lower(col), x) /\ RLeq(x, C6_Upper(col))
C6_Example == <<NumInt(1), NumInt(2), NumInt(3), NumInt(4), NumInt(100)>>

\* C6: with method iqr and action cap, after detect_outliers every value of
\* a numeric column lies within [Q1 - 1.5*IQR, Q3 + 1.5*IQR] of the column
\* as it was before the pass, a value that lay within is unchanged, and the
\* frame has the rows it had; the column 1,2,3,4,100 has Q1 = 2, Q3 = 4,
\* bounds -1 and 7, one outlier, and comes back as 1,2,3,4,7.
C6_CapKeepsValuesWithinBounds ==
    (entry = "detect_outliers" /\ self.outlier_method = "iqr"
        /\ self.outlier_action = "cap" /\ pc # "call") =>
        /\ pc = "done"
        /\ NRows(df) = NRows(input)
        /\ df.names = input.names
        /\ \A c \in Cols(input) : \A r \in Rows(input) :
              IF IsNa(input.data[c][r]) THEN IsNa(df.data[c][r])
              ELSE /\ df.data[c][r].t = "num"
                   /\ C6_Inside(input.data[c], Val(df.data[c][r]))
                   /\ C6_Inside(input.data[c], Val(input.data[c][r])) =>
                         df.data[c][r] = input.data[c][r]
        /\ input.data[1] = C6_Example =>
              /\ C6_Q1(C6_Example) = RInt(2) /\ C6_Q3(C6_Example) = RInt(4)
              /\ C6_Lower(C6_Example) = RInt(0 - 1)
              /\ C6_Upper(C6_Example) = RInt(7)
              /\ df.data[1] = <<NumInt(1), NumInt(2), NumInt(3), NumInt(4), NumInt(7)>>
              /\ \E i \in DOMAIN self.actions :
                    /\ self.actions[i].op = "Capped outliers"
                    /\ self.actions[i].col = input.names[1]
                    /\ self.actions[i].n = 1

\* C6 witness: the column 1,2,3,4,100 was capped, and so was the other column
C6_Witness ==
    /\ entry = "detect_outliers" /\ pc = "done"
    /\ self.outlier_method = "iqr" /\ self.outlier_action = "cap"
    /\ input.data[1] = C6_Example
    /\ df.data[1] # input.data[1]
    /\ df.data[2] # input.data[2]

\* the normal form of a name in one scan: a run of whitespace or hyphens
\* gives one underscore, a letter its lowercase, and what is then outside
\* [a-z0-9_] nothing
RECURSIVE C7_Scan(_, _)
C7_Scan(s, inRun) ==
    IF s = <<>> THEN <<>>
    ELSE IF IsSpace(s[1]) \/ s[1] = "-"
         THEN (IF inRun THEN <<>> ELSE <<"_">>) \o C7_Scan(Tail(s), TRUE)
    ELSE (IF LowerChar(s[1]) \in Range(LowerChars) \cup Range(DigitChars) \cup {"_"}
          THEN <<LowerChar(s[1])>> ELSE <<>>) \o C7_Scan(Tail(s), FALSE)
C7_NormalForm(name) == C7_Scan(name, FALSE)

\* C7: standardize_columns gives every column the normal form of its name
\* and keeps the order of the columns and the cells; "First Name" becomes
\* "first_name", "Last-Name" "last_name" and "Age@#" "age".
C7_NamesInNormalForm ==
    (entry = "standardize_columns" /\ pc # "call") =>
        /\ pc = "done"
        /\ NCols(df) = NCols(input)
        /\ \A c \in Cols(input) :
              /\ df.names[c] = C7_NormalForm(input.names[c])
              /\ Range(df.names[c]) \subseteq Range(LowerChars) \cup Range(DigitChars) \cup {"_"}
              /\ input.names[c] = <<"F","i","r","s","t"," ","N","a","m","e">> =>
                    df.names[c] = <<"f","i","r","s","t","_","n","a","m","e">>
              /\ input.names[c] = <<"L","a","s","t","-","N","a","m","e">> =>
                    df.names[c] = <<"l","a","s","t","_","n","a","m","e">>
              /\ input.names[c] = <<"A","g","e","@","#">> =>
                    df.names[c] = <<"a","g","e">>
        /\ df.data = input.data
        /\ df.dtype = input.dtype
        /\ df.index = input.index

\* C7 witness: the frame with the columns "First Name", "Last-Name", "Age@#"
\* was renamed
C7_Witness ==
    /\ entry = "standardize_columns" /\ pc = "done"
    /\ input.names = << <<"F","i","r","s","t"," ","N","a","m","e">>,
                        <<"L","a","s","t","-","N","a","m","e">>,
                        <<"A","g","e","@","#">> >>
    /\ df.names = << <<"f","i","r","s","t","_","n","a","m","e">>,
                     <<"l","a","s","t","_","n","a","m","e">>,
                     <<"a","g","e">> >>

\* C8 (as claimed): column names that are pairwise distinct before
\* standardize_columns are pairwise distinct after it and in every later
\* state of the pipeline.
C8_NamesStayDistinct ==
    (\E k \in DOMAIN calls : /\ calls[k].pass = "standardize_columns"
                             /\ NamesDistinct(calls[k].in.names))
    => NamesDistinct(df.names)

\* C9 (as claimed): a call of a pass other than fix_data_types appends no
\* entry when it leaves the frame unchanged and at least one entry when it
\* changes it; fix_data_types appends one entry per column.
C9_LogOnlyOnChange ==
    \A k \in DOMAIN calls :
        calls[k].ok =>
            IF calls[k].pass = "fix_data_types"
            THEN calls[k].logged = NCols(calls[k].in)
            ELSE /\ calls[k].in = calls[k].out => calls[k].logged = 0
                 /\ calls[k].in # calls[k].out => calls[k].logged >= 1

\* C10 (as claimed): run_cli with an advisory service that answers every
\* call with its default returns the frame that clean() alone returns for
\* the same input and configuration.
C10_FailingAdvisoryIsNeutral ==
    (pc = "done" /\ entry = "cli" /\ advisory = "failing")
    => /\ clean(Fresh(self), input).ok
       /\ ret.df = clean(Fresh(self), input).df

\* the documented domains of the configuration values
C11_InDomain(cfg) ==
    /\ cfg.fuzzy_threshold \in 0..100
    /\ RLeq(RInt(0), cfg.nullity_threshold) /\ RLeq(cfg.nullity_threshold, RInt(1))
    /\ cfg.outlier_method \in {"iqr", "isolation_forest"}
    /\ cfg.outlier_action \in {"cap", "remove", "flag"}
    /\ cfg.scale_method \in {"minmax", "standard"}

\* C11 (as claimed): a configuration value outside its documented domain
\* makes the engine raise; no engine that carries such a value runs a pass.
C11_InvalidConfigurationRaises ==
    ~C11_InDomain(self) => (pc \in {"construct", "raised"} /\ calls = <<>>)

\* the extensions the claim lists
C12_Supported(path) ==
    PathSuffix(path) \in {<<".","c","s","v">>, <<".","x","l","s","x">>, <<".","x","l","s">>}

\* C12 (as claimed): validate_file raises FileNotFoundError for a path that
\* does not exist and has a supported extension, raises ValueError for a
\* path whose extension is not supported (as for "test.txt", which does not
\* exist), and returns True only for an existing path with a supported
\* extension.
C12_ValidateFileOutcomes ==
    (entry = "validate_file" /\ pc # "call") =>
        /\ (file_path \notin fs /\ C12_Supported(file_path)) =>
              outcome = "FileNotFoundError"
        /\ ~C12_Supported(file_path) => outcome = "ValueError"
        /\ outcome = "True" => (file_path \in fs /\ C12_Supported(file_path))

\* the patterns in the order the claim lists them: %Y-%m-%d, %d/%m/%Y,
\* %m-%d-%Y, %Y/%m/%d, %d-%m-%Y, %Y.%m.%d, %d.%m.%Y
C13_Patterns ==
    << [fields |-> <<"Y", "m", "d">>, sep |-> "-"],
       [fields |-> <<"d", "m", "Y">>, sep |-> "/"],
       [fields |-> <<"m", "d", "Y">>, sep |-> "-"],
       [fields |-> <<"Y", "m", "d">>, sep |-> "/"],
       [fields |-> <<"d", "m", "Y">>, sep |-> "-"],
       [fields |-> <<"Y", "m", "d">>, sep |-> "."],
       [fields |-> <<"d", "m", "Y">>, sep |-> "."] >>
\* pattern k parses at least one value of the column
C13_Parses(col, k) ==
    \E r \in DOMAIN col : NotNa(ParseDateCell(col[r], C13_Patterns[k]))
\* the entries of the log that name column c of the input
C13_EntriesOf(c) ==
    {i \in DOMAIN self.actions : self.actions[i].col = input.names[c]}

\* C13: parse_dates converts a text column with the first pattern, in the
\* listed order, that parses at least one of its values, and logs that
\* pattern; a text column no pattern parses and every column that is not
\* text come back unchanged, with nothing logged.
C13_FirstPatternInOrder ==
    (entry = "parse_dates" /\ pc # "call") =>
        /\ pc = "done"
        /\ df.names = input.names /\ df.index = input.index
        /\ \A c \in Cols(input) :
              IF input.dtype[c] = "object"
                 /\ \E k \in DOMAIN C13_Patterns : C13_Parses(input.data[c], k)
              THEN \E k \in DOMAIN C13_Patterns :
                      /\ C13_Parses(input.data[c], k)
                      /\ \A j \in 1..(k - 1) : ~C13_Parses(input.data[c], j)
                      /\ df.data[c] = [r \in Rows(input) |->
                                          ParseDateCell(input.data[c][r], C13_Patterns[k])]
                      /\ df.dtype[c] = "datetime64"
                      /\ Cardinality(C13_EntriesOf(c)) = 1
                      /\ \A i \in C13_EntriesOf(c) :
                            /\ self.actions[i].op = "Parsed as datetime"
                            /\ date_formats[self.actions[i].n] = C13_Patterns[k]
              ELSE /\ df.data[c] = input.data[c]
                   /\ df.dtype[c] = input.dtype[c]
                   /\ C13_EntriesOf(c) = {}

\* C13 witness: a column whose values are parsed by the third and by the
\* fifth pattern was converted with the third
C13_Witness ==
    /\ entry = "parse_dates" /\ pc = "done"
    /\ C13_Parses(input.data[1], 3) /\ C13_Parses(input.data[1], 5)
    /\ ~C13_Parses(input.data[1], 1) /\ ~C13_Parses(input.data[1], 2)
    /\ df.dtype[1] = "datetime64"
    /\ self.actions # <<>> /\ self.actions[1].n = 3

\* C15 (as claimed): every cell that is present before parse_dates is
\* present after it, so every column has as many missing cells after the
\* pass as before.
C15_NoPresentCellLost ==
    (entry = "parse_dates" /\ pc = "done") =>
        \A c \in Cols(input) :
            /\ \A r \in Rows(input) : NotNa(input.data[c][r]) => NotNa(df.data[c][r])
            /\ NaCount(df.data[c]) = NaCount(input.data[c])

\* the rows the "Removed outliers" entries of the log account for
C14_LoggedRemovals ==
    SeqSum([i \in DOMAIN self.actions |->
               IF self.actions[i].op = "Removed outliers" THEN self.actions[i].n ELSE 0])

\* C14 (as claimed): with action remove, under either method, the outlier
\* rows of each numeric column are evaluated on the rows that remain after
\* the removals for the columns before it, so the marker has one entry per
\* remaining row and the pass returns; all columns have the same length, no
\* row is removed twice, and the surviving rows are rows of the input in
\* their order. (Frames on which the isolation forest can be fitted: at
\* least one row, and a value in every numeric column.)
C14_RemoveRecomputesPerColumn ==
    (entry = "detect_outliers" /\ self.outlier_action = "remove" /\ pc # "call"
        /\ NRows(input) > 0
        /\ \A c \in Cols(input) : NaCount(input.data[c]) < NRows(input)) =>
        /\ pc = "done"
        /\ \A c \in Cols(df) : Len(df.data[c]) = NRows(df)
        /\ \A i, j \in Rows(df) : i < j => df.index[i] < df.index[j]
        /\ \A i \in Rows(df) : \E r \in Rows(input) :
              /\ input.index[r] = df.index[i]
              /\ Row(input, r) = Row(df, i)
        /\ C14_LoggedRemovals = NRows(input) - NRows(df)

\* the same statement for the method 'iqr' alone
C14_IqrOnly ==
    self.outlier_method = "iqr" => C14_RemoveRecomputesPerColumn

====
